---------------------------- MODULE Spec2Model ----------------------------
(***************************************************************************)
(* Cuckoo Cycle miner (src/src/cuda_miner.cu): parallel edge trimming on   *)
(* the device followed by the sequential cycle detection on the host.      *)
(*                                                                         *)
(* Scaling.  The graph is the toy instance SIZESHIFT = 4 (8 nonces, 8      *)
(* nodes per side).  A u32 word is modelled as the set of the positions of *)
(* its 1 bits and is WORDBITS = 4 bits wide instead of 32, so that the     *)
(* edge bitmap has two words and a counter word packs two nodes.  IDXSHIFT *)
(* (an #ifndef parameter of the source) is 1, so that the pointer table    *)
(* has 8 slots.  The keyed hash is represented by its table of values      *)
(* sip_ctx, drawn from a bounded family of graphs.  SIZESHIFT is a         *)
(* compile-time macro and a variable of the model, fixed by Init: path()   *)
(* on its own is driven in the build SIZESHIFT = 5 (32 nodes, 16 slots),   *)
(* where a trail can run out of MAXPATHLEN = 16 entries on fresh nodes.    *)
(***************************************************************************)
EXTENDS Integers, Sequences, FiniteSets, TLC

\* ---------------------------------------------------------------- bounds
MaxThreads == 2
MaxTrims == 2
MaxSets == 4

\* ------------------------------------------------------ program constants
IDXSHIFT == 1
WORDBITS == 4
LOADLIMIT == 90

Word == 0 .. (WORDBITS - 1)
ProofSizes == {2, 4}

VARIABLES
  SIZESHIFT,   \* compile-time log2 of the number of nodes: 4, and 5 where
               \* path() is driven on its own
  U64_BITS,    \* width of the u64 slot words: 64, or a scaled width below
               \* 2*SIZESHIFT that stands for the builds with SIZESHIFT > 32
  sip_ctx,     \* the keyed hash as a table: index 2*nonce + uorv -> hash value
  nthreads,    \* -t
  ntrims,      \* -n
  PART_BITS,   \* compile-time partition bits
  PROOFSIZE,   \* compile-time cycle length
  hpc,         \* host position: "trim", "count", "kill", "readout", "scan", "exit";
               \* "hash" and "traced" where the table is driven on its own
  round, uorv, part,
  alive,       \* ctx.alive.bits on the device: word index -> set of 1 bits (dead)
  nonleaf,     \* ctx.nonleaf.bits: word index -> set of 1 bits
  th,          \* per execution unit: the kernel's local variables
  bits,        \* host copy of the edge bitmap
  cuckoo,      \* cuckoo_hash::cuckoo, << >> before it is allocated
  nonce,       \* the scan's loop variable
  out,         \* what was printed: sequence of records
  setlog,      \* the (from, to) arguments of every cuckoo.set so far
  exitcode,    \* -1 while running
  reason       \* why the run ended

vars == << SIZESHIFT, U64_BITS, sip_ctx, nthreads, ntrims, PART_BITS, PROOFSIZE, hpc,
           round, uorv, part, alive, nonleaf, th, bits, cuckoo, nonce, out, setlog,
           exitcode, reason >>

\* ------------------------------------------------- the derived macros
SIZE == 2 ^ SIZESHIFT
HALFSIZE == SIZE \div 2
NODEMASK == HALFSIZE - 1
MAXPATHLEN == 8 * (2 ^ (SIZESHIFT \div 3))
CUCKOO_SIZE == SIZE \div (2 ^ IDXSHIFT)
CUCKOO_MASK == CUCKOO_SIZE - 1

Nonces == 0 .. (HALFSIZE - 1)
Nodes == 0 .. NODEMASK
ALIVE_WORDS == HALFSIZE \div WORDBITS

\* -------------------------------------------------------- small helpers
Max(a, b) == IF a > b THEN a ELSE b
Min(a, b) == IF a < b THEN a ELSE b

\* x >> 1 on a word given as its set of 1 bits
Shr1(w) == { b - 1 : b \in (w \ {0}) }

\* ------------------------------------------------------------- dipnode
\* the node of nonce nce on side uorv: the hash of 2*nce + uorv, masked
dipnode(ctx, nce, side) == ctx[2 * nce + side] % (NODEMASK + 1)

\* ---------------------------------------------------------- shrinkingset
\* bits[n/32] = 1 << (n%32): an assignment in place of |=
reset_assign(bs, n) ==
  [bs EXCEPT ![n \div WORDBITS] = {n % WORDBITS}]

reset(bs, n) ==
  [bs EXCEPT ![n \div WORDBITS] = @ \cup {n % WORDBITS}]

test(bs, n) == (n % WORDBITS) \notin bs[n \div WORDBITS]

block(bs, n) == Word \ bs[n \div WORDBITS]

\* ------------------------------------------------------------ twice_set
PART_MASK == (2 ^ PART_BITS) - 1
ONCE_BITS == HALFSIZE \div (2 ^ PART_BITS)
TWICE_WORDS == (2 * ONCE_BITS) \div WORDBITS
NODES_PER_WORD == WORDBITS \div 2

\* the memset of line 256 left out: the counters of the last phase stay
twice_reset_stale == nonleaf

twice_reset == [i \in 0 .. (TWICE_WORDS - 1) |-> {}]

\* bit = 1 << (u%16): one bit per node, so that neighbours overlap
twice_bit_packed(u) == u % NODES_PER_WORD

twice_bit(u) == 2 * (u % NODES_PER_WORD)

\* first atomicOr of twice_set::set; the old word is what it returns
twice_or1(tw, u) ==
  [tw EXCEPT ![u \div NODES_PER_WORD] = @ \cup {twice_bit(u)}]

\* (old & (bit2|bit)) == bit2: the two masks swapped
twice_needs2_swapped(old, u) ==
  (twice_bit(u) \notin old) /\ ((twice_bit(u) + 1) \in old)

\* (old & (bit2|bit)) == bit
twice_needs2(old, u) ==
  (twice_bit(u) \in old) /\ ((twice_bit(u) + 1) \notin old)

\* second atomicOr of twice_set::set
twice_or2(tw, u) ==
  [tw EXCEPT ![u \div NODES_PER_WORD] = @ \cup {twice_bit(u) + 1}]

twice_test(tw, u) ==
  (twice_bit(u) + 1) \in tw[u \div NODES_PER_WORD]

\* -------------------------------------------- the kernels' loop structure
ThreadIds == 0 .. (nthreads - 1)

Done == [st |-> "done", block |-> HALFSIZE, alive32 |-> {}, nonce |-> HALFSIZE]

\* block += 32: the outer loop's stride without the factor nthreads
RECURSIVE Seek_unstrided(_, _, _, _)
Seek_unstrided(bs, blk, a32, nce) ==
  IF blk >= HALFSIZE THEN Done
  ELSE IF a32 = {} THEN
    LET nb == blk + WORDBITS
    IN  IF nb >= HALFSIZE THEN Done
        ELSE Seek_unstrided(bs, nb, block(bs, nb), nb)
  ELSE IF 0 \in a32 /\ (dipnode(sip_ctx, nce, uorv) % (PART_MASK + 1)) = part
    THEN [st |-> "run", block |-> blk, alive32 |-> a32, nonce |-> nce]
  ELSE Seek_unstrided(bs, blk, Shr1(a32), nce + 1)

\* Runs the two nested for loops of a kernel from (blk, a32, nce) up to the
\* next nonce with (alive32 & 1) and (u & PART_MASK) == part, where the body
\* touches shared memory; Done when the outer loop ends.
RECURSIVE Seek(_, _, _, _)
Seek(bs, blk, a32, nce) ==
  IF blk >= HALFSIZE THEN Done
  ELSE IF a32 = {} THEN
    LET nb == blk + nthreads * WORDBITS
    IN  IF nb >= HALFSIZE THEN Done ELSE Seek(bs, nb, block(bs, nb), nb)
  ELSE IF 0 \in a32 /\ (dipnode(sip_ctx, nce, uorv) % (PART_MASK + 1)) = part
    THEN [st |-> "run", block |-> blk, alive32 |-> a32, nonce |-> nce]
  ELSE Seek(bs, blk, Shr1(a32), nce + 1)

\* block = 0 at kernel entry: the unit's id left out
Launch_noid(bs, id) == Seek(bs, 0, block(bs, 0), 0)

\* kernel entry of unit id: block = id*32
Launch(bs, id) ==
  IF id * WORDBITS >= HALFSIZE THEN Done
  ELSE Seek(bs, id * WORDBITS, block(bs, id * WORDBITS), id * WORDBITS)

\* the inner loop's increment after the body ran for t's nonce
Step(bs, t) == Seek(bs, t.block, Shr1(t.alive32), t.nonce + 1)

AllDone == \A id \in ThreadIds : th[id].st = "done"

HostVarsUnchanged ==
  UNCHANGED << SIZESHIFT, U64_BITS, sip_ctx, nthreads, ntrims, PART_BITS, PROOFSIZE, bits,
               cuckoo, nonce, out, setlog, exitcode, reason >>

\* ----------------------------------------------------------- trimming
\* main, lines 254-258: loop head, cudaMemset of the counters, launch of
\* count_node_deg; when the rounds are over control passes to the readout
TrimLoop ==
  /\ hpc = "trim"
  /\ IF round < ntrims
       THEN /\ nonleaf' = twice_reset
            /\ th' = [id \in ThreadIds |-> Launch(alive, id)]
            /\ hpc' = "count"
       ELSE /\ hpc' = "readout"
            /\ UNCHANGED << nonleaf, th >>
  /\ UNCHANGED << round, uorv, part, alive >>
  /\ HostVarsUnchanged

\* count_node_deg: the first atomicOr of nonleaf.set for unit id's nonce
CountMark(id) ==
  /\ hpc = "count"
  /\ th[id].st = "run"
  /\ LET u   == dipnode(sip_ctx, th[id].nonce, uorv) \div (2 ^ PART_BITS)
         old == nonleaf[u \div NODES_PER_WORD]
     IN  /\ nonleaf' = twice_or1(nonleaf, u)
         /\ th' = [th EXCEPT ![id] =
                     IF twice_needs2(old, u)
                       THEN [th[id] EXCEPT !.st = "or2"]
                       ELSE Step(alive, th[id])]
  /\ UNCHANGED << hpc, round, uorv, part, alive >>
  /\ HostVarsUnchanged

\* count_node_deg: the second atomicOr of nonleaf.set
CountMark2(id) ==
  /\ hpc = "count"
  /\ th[id].st = "or2"
  /\ LET u == dipnode(sip_ctx, th[id].nonce, uorv) \div (2 ^ PART_BITS)
     IN  nonleaf' = twice_or2(nonleaf, u)
  /\ th' = [th EXCEPT ![id] = Step(alive, th[id])]
  /\ UNCHANGED << hpc, round, uorv, part, alive >>
  /\ HostVarsUnchanged

\* the kernels run in stream order: kill_leaf_edges starts when every unit
\* of count_node_deg has returned
LaunchKill ==
  /\ hpc = "count"
  /\ AllDone
  /\ th' = [id \in ThreadIds |-> Launch(alive, id)]
  /\ hpc' = "kill"
  /\ UNCHANGED << round, uorv, part, alive, nonleaf >>
  /\ HostVarsUnchanged

\* kill_leaf_edges: the body for unit id's nonce
KillLeaf(id) ==
  /\ hpc = "kill"
  /\ th[id].st = "run"
  /\ LET u  == dipnode(sip_ctx, th[id].nonce, uorv) \div (2 ^ PART_BITS)
         bs == IF ~twice_test(nonleaf, u) THEN reset(alive, th[id].nonce)
                                          ELSE alive
     IN  /\ alive' = bs
         /\ th' = [th EXCEPT ![id] = Step(bs, th[id])]
  /\ UNCHANGED << hpc, round, uorv, part, nonleaf >>
  /\ HostVarsUnchanged

\* main, lines 254-256: the increments of the three nested loops
EndHalfRound ==
  /\ hpc = "kill"
  /\ AllDone
  /\ hpc' = "trim"
  /\ IF part < PART_MASK
       THEN /\ part' = part + 1
            /\ UNCHANGED << uorv, round >>
       ELSE /\ part' = 0
            /\ IF uorv = 0
                 THEN uorv' = 1 /\ UNCHANGED round
                 ELSE uorv' = 0 /\ round' = round + 1
  /\ UNCHANGED << alive, nonleaf, th >>
  /\ HostVarsUnchanged

\* ------------------------------------------------------------- sipedge
\* cuckoo.h is not part of the sources at hand; by the specification an
\* edge is the pair of the two generator calls with side flags 0 and 1
sipedge(ctx, nce) == << dipnode(ctx, nce, 0), dipnode(ctx, nce, 1) >>

\* ---------------------------------------------------------- cuckoo_hash
\* line 97: the key bits that survive the left shift by SIZESHIFT
KEYBITS == U64_BITS - SIZESHIFT

\* u & KEYMASK, for u < SIZE
KeyOf(u) == IF KEYBITS >= SIZESHIFT THEN u ELSE u % (2 ^ KEYBITS)

\* drift < MAXDRIFT, MAXDRIFT = 1 << (KEYBITS - IDXSHIFT), for drift < SIZE
DriftOK(d) ==
  IF KEYBITS - IDXSHIFT >= SIZESHIFT THEN TRUE
  ELSE d < 2 ^ Max(KEYBITS - IDXSHIFT, 0)

EmptyTable == [i \in 0 .. CUCKOO_MASK |-> 0]
NoTable == << >>

\* the probe loop of cuckoo_hash::set; k counts the slots probed, and a
\* loop that has seen every slot without returning never returns
RECURSIVE set_probe(_, _, _, _, _)
set_probe(c, u, niew, ui, k) ==
  IF k >= CUCKOO_SIZE THEN [res |-> "hang", tab |-> c]
  ELSE IF c[ui] = 0 \/ (c[ui] \div SIZE) = KeyOf(u)
    THEN [res |-> "ok", tab |-> [c EXCEPT ![ui] = niew]]
  ELSE set_probe(c, u, niew, (ui + 1) % (CUCKOO_MASK + 1), k + 1)

\* (u64)u << SIZESHIFT | v in a word of U64_BITS bits, for u, v < SIZE
niew_of(u, v) ==
  IF U64_BITS >= 2 * SIZESHIFT THEN u * SIZE + v
  ELSE (u * SIZE + v) % (2 ^ U64_BITS)

cuckoo_set(c, u, v) ==
  set_probe(c, u, niew_of(u, v), u \div (2 ^ IDXSHIFT), 0)

\* the probe loop of operator[] without the test for an empty slot
RECURSIVE get_probe_noempty(_, _, _, _)
get_probe_noempty(c, u, ui, k) ==
  IF k >= CUCKOO_SIZE THEN [res |-> "hang", val |-> 0]
  ELSE IF c[ui] # 0 /\ (c[ui] \div SIZE) = KeyOf(u)
    THEN IF DriftOK((ui - (u \div (2 ^ IDXSHIFT))) % (CUCKOO_MASK + 1))
           THEN [res |-> "ok", val |-> c[ui] % SIZE]
           ELSE [res |-> "assert_drift", val |-> 0]
  ELSE get_probe_noempty(c, u, (ui + 1) % (CUCKOO_MASK + 1), k + 1)

\* the probe loop of cuckoo_hash::operator[]
RECURSIVE get_probe(_, _, _, _)
get_probe(c, u, ui, k) ==
  IF k >= CUCKOO_SIZE THEN [res |-> "hang", val |-> 0]
  ELSE IF c[ui] = 0 THEN [res |-> "ok", val |-> 0]
  ELSE IF (c[ui] \div SIZE) = KeyOf(u)
    THEN IF DriftOK((ui - (u \div (2 ^ IDXSHIFT))) % (CUCKOO_MASK + 1))
           THEN [res |-> "ok", val |-> c[ui] % SIZE]
           ELSE [res |-> "assert_drift", val |-> 0]
  ELSE get_probe(c, u, (ui + 1) % (CUCKOO_MASK + 1), k + 1)

cuckoo_get(c, u) == get_probe(c, u, u \div (2 ^ IDXSHIFT), 0)

\* ------------------------------------------------------------------ path
\* A trail us[0..] is the sequence us with us[i] at position i+1.
At(us, i) == us[i + 1]

\* the search run upwards from index 0: the lowest index holding u
find_first(us, u, nu) ==
  IF \E i \in 0 .. (nu - 1) : At(us, i) = u
    THEN CHOOSE i \in 0 .. (nu - 1) :
           At(us, i) = u /\ \A h \in 0 .. (i - 1) : At(us, h) # u
    ELSE -1

\* highest index below MAXPATHLEN holding u, -1 if none: while (nu-- && us[nu] != u)
RECURSIVE find_back(_, _, _)
find_back(us, u, nu) ==
  IF nu = 0 THEN -1
  ELSE IF At(us, nu - 1) = u THEN nu - 1
  ELSE find_back(us, u, nu - 1)

RECURSIVE path_loop(_, _, _, _)
path_loop(c, u, us, nu) ==
  IF u = 0 THEN [res |-> "ok", nu |-> nu, us |-> us, arg |-> 0]
  ELSE IF nu + 1 >= MAXPATHLEN THEN
    LET i == find_back(us, u, nu + 1)
    IN  IF i = -1
          THEN [res |-> "maxpath", nu |-> nu, us |-> us, arg |-> 0]
          ELSE [res |-> "illegal", nu |-> nu, us |-> us, arg |-> MAXPATHLEN - i]
  ELSE LET nxt == cuckoo_get(c, u)
       IN  IF nxt.res # "ok"
             THEN [res |-> nxt.res, nu |-> nu + 1, us |-> Append(us, u), arg |-> 0]
             ELSE path_loop(c, nxt.val, Append(us, u), nu + 1)

\* path(cuckoo, u, us) with us[0] already stored by the caller
path(c, u, us0) == path_loop(c, u, << us0 >>, 0)

\* ------------------------------------------------ main: cycle detection
\* line 297 without its loop: the aligned start taken as the meeting point
join_walk_noalign(us, vs, nu, nv) == << nu, nv >>

\* line 297: for (nu -= min, nv -= min; us[nu] != vs[nv]; nu++, nv++) ;
RECURSIVE join_walk(_, _, _, _)
join_walk(us, vs, nu, nv) ==
  IF At(us, nu) = At(vs, nv) THEN << nu, nv >>
  ELSE join_walk(us, vs, nu + 1, nv + 1)

Even(k) == 2 * (k \div 2)       \* k & ~1
Odd(k) == 2 * (k \div 2) + 1    \* k | 1

\* lines 302-308: the std::set<edge> cycle
cycle_edges(us, vs, nu, nv) ==
  { << At(us, 0), At(vs, 0) >> }
    \cup { << At(us, Even(k + 1)), At(us, Odd(k)) >> : k \in 0 .. (nu - 1) }
    \cup { << At(vs, Odd(k)), At(vs, Even(k + 1)) >> : k \in 0 .. (nv - 1) }

\* lines 309-320: the re-scan of the edge bitmap; prints is what printf
\* wrote (its argument is nonce, the closing edge), hits the matching nce
RECURSIVE rescan(_, _, _, _, _, _)
rescan(bs, cyc, nce, closing, prints, hits) ==
  IF nce >= HALFSIZE THEN [prints |-> prints, hits |-> hits]
  ELSE IF test(bs, nce) /\ sipedge(sip_ctx, nce) \in cyc
    THEN rescan(bs,
                IF PROOFSIZE > 2 THEN cyc \ {sipedge(sip_ctx, nce)} ELSE cyc,
                nce + 1, closing, Append(prints, closing), Append(hits, nce))
  ELSE rescan(bs, cyc, nce + 1, closing, prints, hits)

\* lines 326-334: while (n--) cuckoo.set(t[n+1], t[n]); cuckoo.set(a, b)
RECURSIVE reverse_trail(_, _, _, _, _, _)
reverse_trail(c, t, n, a, b, log) ==
  IF n = 0
    THEN LET r == cuckoo_set(c, a, b)
         IN  [res |-> r.res, tab |-> r.tab, log |-> Append(log, << a, b >>)]
  ELSE LET r == cuckoo_set(c, At(t, n), At(t, n - 1))
       IN  IF r.res # "ok"
             THEN [res |-> r.res, tab |-> r.tab,
                   log |-> Append(log, << At(t, n), At(t, n - 1) >>)]
             ELSE reverse_trail(r.tab, t, n - 1, a, b,
                                Append(log, << At(t, n), At(t, n - 1) >>))

Result(res, tab, prints, log) ==
  [res |-> res, tab |-> tab, prints |-> prints, log |-> log]

\* the test us[nu] == vs[nv] of line 295 left out: the trails are united
\* although they end at one root
join_as_union(c, nce, us, vs, nu0, nv0) ==
  LET r == IF nu0 < nv0
             THEN reverse_trail(c, us, nu0, At(us, 0), At(vs, 0), << >>)
             ELSE reverse_trail(c, vs, nv0, At(vs, 0), At(us, 0), << >>)
  IN  Result(IF r.res = "ok" THEN "continue" ELSE r.res, r.tab, << >>, r.log)

\* lines 298-324: a cycle closes
join(c, nce, us, vs, nu0, nv0) ==
  LET m   == Min(nu0, nv0)
      w   == join_walk(us, vs, nu0 - m, nv0 - m)
      len == w[1] + w[2] + 1
      found == [kind |-> "cycle", len |-> len, at |-> nce]
  IN  IF len # PROOFSIZE THEN Result("continue", c, << found >>, << >>)
      ELSE LET cyc == cycle_edges(us, vs, w[1], w[2])
               r   == rescan(bits, cyc, 0, nce, << >>, << >>)
               sol == [kind |-> "solution", at |-> nce, cycle |-> cyc,
                       printed |-> r.prints, hits |-> r.hits]
           IN  Result(IF Len(r.prints) = PROOFSIZE THEN "continue" ELSE "assert_n",
                      c, << found, sol >>, << >>)

\* lines 289-334: the body of the scan for one alive nonce
process_edge(c, nce) ==
  LET e  == sipedge(sip_ctx, nce)
      u0 == e[1]
      v0 == e[2]
  IN  IF u0 = 0 THEN Result("continue", c, << >>, << >>)
      ELSE
        LET gu == cuckoo_get(c, u0)
            gv == cuckoo_get(c, v0)
        IN  IF gu.res # "ok" THEN Result(gu.res, c, << >>, << >>)
            ELSE IF gv.res # "ok" THEN Result(gv.res, c, << >>, << >>)
            ELSE
              LET pu == path(c, gu.val, u0)
              IN  IF pu.res # "ok"
                    THEN Result(pu.res, c, << [kind |-> pu.res, arg |-> pu.arg] >>, << >>)
                  ELSE
                    LET pv == path(c, gv.val, v0)
                    IN  IF pv.res # "ok"
                          THEN Result(pv.res, c, << [kind |-> pv.res, arg |-> pv.arg] >>, << >>)
                        ELSE IF At(pu.us, pu.nu) = At(pv.us, pv.nu)
                          THEN join(c, nce, pu.us, pv.us, pu.nu, pv.nu)
                        ELSE
                          LET r == IF pu.nu < pv.nu
                                     THEN reverse_trail(c, pu.us, pu.nu, u0, v0, << >>)
                                     ELSE reverse_trail(c, pv.us, pv.nu, v0, u0, << >>)
                          IN  Result(IF r.res = "ok" THEN "continue" ELSE r.res,
                                     r.tab, << >>, r.log)

\* exit status of each way the run ends: exit(0) in path and on overload,
\* return 0 at the end of main, abort() from a failed assert
ExitStatus(why) ==
  CASE why = "normal" -> 0
    [] why = "overloaded" -> 0
    [] why = "illegal" -> 0
    [] why = "maxpath" -> 0
    [] why = "assert_n" -> 134
    [] why = "assert_drift" -> 134
    [] OTHER -> -1

RECURSIVE popcount(_, _)
popcount(bs, i) ==
  IF i >= ALIVE_WORDS THEN 0
  ELSE Cardinality(Word \ bs[i]) + popcount(bs, i + 1)

\* 100L * cnt / SIZE: the load taken against the graph size
load_of_size(cnt) == (100 * cnt) \div SIZE

\* line 276: load = (u32)(100L * cnt / CUCKOO_SIZE)
load_of(cnt) == (100 * cnt) \div CUCKOO_SIZE

TrimVarsUnchanged ==
  UNCHANGED << SIZESHIFT, U64_BITS, sip_ctx, nthreads, ntrims, PART_BITS, PROOFSIZE, round,
               uorv, part, alive, nonleaf, th >>

\* main, lines 264-284: copy the bitmap out, count, load check, allocate
LoadCheck ==
  /\ hpc = "readout"
  /\ bits' = alive
  /\ LET load == load_of(popcount(alive, 0))
     IN  IF load >= LOADLIMIT
           THEN /\ out' = Append(Append(out, [kind |-> "load", val |-> load]),
                                 [kind |-> "overloaded"])
                /\ hpc' = "exit"
                /\ reason' = "overloaded"
                /\ exitcode' = ExitStatus("overloaded")
                /\ UNCHANGED << cuckoo, nonce >>
           ELSE /\ out' = Append(out, [kind |-> "load", val |-> load])
                /\ cuckoo' = EmptyTable
                /\ nonce' = 0
                /\ hpc' = "scan"
                /\ UNCHANGED << reason, exitcode >>
  /\ UNCHANGED setlog
  /\ TrimVarsUnchanged

\* main, lines 286-337: one iteration of the scan loop
ScanNonce ==
  /\ hpc = "scan"
  /\ nonce < HALFSIZE
  /\ IF ~test(bits, nonce)
       THEN /\ nonce' = nonce + 1
            /\ UNCHANGED << cuckoo, out, setlog, hpc, reason, exitcode >>
       ELSE LET r == process_edge(cuckoo, nonce)
            IN  /\ cuckoo' = r.tab
                /\ out' = out \o r.prints
                /\ setlog' = setlog \o r.log
                /\ IF r.res = "continue"
                     THEN /\ nonce' = nonce + 1
                          /\ UNCHANGED << hpc, reason, exitcode >>
                     ELSE /\ hpc' = IF r.res = "hang" THEN "hang" ELSE "exit"
                          /\ reason' = r.res
                          /\ exitcode' = ExitStatus(r.res)
                          /\ UNCHANGED nonce
  /\ UNCHANGED bits
  /\ TrimVarsUnchanged

\* main, line 338: return 0
Return ==
  /\ hpc = "scan"
  /\ nonce >= HALFSIZE
  /\ hpc' = "exit"
  /\ reason' = "normal"
  /\ exitcode' = ExitStatus("normal")
  /\ UNCHANGED << bits, cuckoo, nonce, out, setlog >>
  /\ TrimVarsUnchanged

\* ------------------------------------------------------------ the inputs
\* sip_ctx as the table of the hash values of 2*nonce + side
Table(es) == [i \in 0 .. (2 * HALFSIZE - 1) |-> es[(i \div 2) + 1][(i % 2) + 1]]

\* the graphs: the (u, v) pairs of nonces 0..5, one set of choices per
\* nonce, and of nonces 6 and 7 together.  The family holds a 4-cycle with
\* a chain of chaff that takes two rounds to trim, double and triple edges,
\* surviving edges with endpoint 0 on either side, edges whose u and v
\* carry the same number, and graphs that no trimming shrinks.
Cand ==
  << { << << 1, 4 >> >> },
     { << << 1, 5 >> >>, << << 1, 4 >> >> },
     { << << 2, 4 >> >>, << << 1, 4 >> >> },
     { << << 2, 5 >> >> },
     { << << 2, 6 >> >>, << << 3, 6 >> >> },
     { << << 3, 6 >> >>, << << 4, 1 >> >> },
     { << << 3, 7 >>, << 4, 7 >> >>,
       << << 5, 0 >>, << 5, 0 >> >>,
       << << 0, 6 >>, << 0, 6 >> >>,
       << << 3, 1 >>, << 4, 7 >> >> } >>

\* a graph outside that family: the edges into node 0 come first, so that
\* later edges (2, 0) meet a node 0 that already has a pointer
ExtraGraphs ==
  { << << 5, 0 >>, << 5, 0 >>, << 2, 0 >>, << 2, 0 >>,
       << 1, 4 >>, << 1, 4 >>, << 3, 6 >>, << 4, 7 >> >> }

Init ==
  /\ SIZESHIFT = 4
  /\ U64_BITS = 64
  /\ \/ \E s0 \in Cand[1], s1 \in Cand[2], s2 \in Cand[3], s3 \in Cand[4],
           s4 \in Cand[5], s5 \in Cand[6], s6 \in Cand[7] :
          sip_ctx = Table(s0 \o s1 \o s2 \o s3 \o s4 \o s5 \o s6)
     \/ \E g \in ExtraGraphs : sip_ctx = Table(g)
  /\ nthreads \in 1 .. MaxThreads
  /\ ntrims \in 0 .. MaxTrims
  /\ PART_BITS \in {0, 1}
  /\ PROOFSIZE \in ProofSizes
  /\ hpc = "trim"
  /\ round = 0 /\ uorv = 0 /\ part = 0
  /\ alive = [i \in 0 .. (ALIVE_WORDS - 1) |-> {}]
  /\ nonleaf = [i \in 0 .. (TWICE_WORDS - 1) |-> {}]
  /\ th = [id \in ThreadIds |-> Done]
  /\ bits = [i \in 0 .. (ALIVE_WORDS - 1) |-> {}]
  /\ cuckoo = NoTable
  /\ nonce = 0
  /\ out = << >>
  /\ setlog = << >>
  /\ exitcode = -1
  /\ reason = "none"

Next ==
  \/ TrimLoop
  \/ \E id \in ThreadIds : CountMark(id)
  \/ \E id \in ThreadIds : CountMark2(id)
  \/ LaunchKill
  \/ \E id \in ThreadIds : KillLeaf(id)
  \/ EndHalfRound
  \/ LoadCheck
  \/ ScanNonce
  \/ Return

Spec == Init /\ [][Next]_vars

\* The run under a scheduler that lets the host and every launched unit
\* take its next step: kernels run to completion between the host's
\* synchronisation points and the scan is one sequential loop.  The graphs:
\* a 4-cycle with a tail, a triple edge with edges into node 0, a 2-cycle
\* next to a tree, and the graph of ExtraGraphs.
FairGraphs ==
  ExtraGraphs \cup
  { << << 1, 4 >>, << 1, 5 >>, << 2, 4 >>, << 2, 5 >>,
       << 2, 6 >>, << 3, 6 >>, << 3, 7 >>, << 4, 7 >> >>,
    << << 1, 4 >>, << 1, 4 >>, << 1, 4 >>, << 2, 5 >>,
       << 3, 6 >>, << 4, 1 >>, << 5, 0 >>, << 5, 0 >> >>,
    << << 1, 4 >>, << 1, 5 >>, << 2, 4 >>, << 2, 5 >>,
       << 3, 6 >>, << 3, 6 >>, << 0, 6 >>, << 0, 6 >> >> }

InitFair == Init /\ \E g \in FairGraphs : sip_ctx = Table(g)

SpecFair == InitFair /\ [][Next]_vars /\ WF_vars(Next)

\* ------------------------------------------- the PathTable on its own
\* keys and values of the set operations.  Node 0 is a key when v0 = 0
\* (line 333) and a value when v0 = 0 at line 330.  0 and 1 share the
\* natural slot 0; 14 and 15 share the last slot, from which the probe
\* wraps around to slot 0.
HashKeys == {0, 1, 14, 15}
HashVals == {0, 3, 5}

InitHash ==
  /\ SIZESHIFT = 4
  /\ U64_BITS = 64
  /\ sip_ctx = Table([i \in 1 .. HALFSIZE |-> << 1, 1 >>])
  /\ nthreads = 1 /\ ntrims = 0 /\ PART_BITS = 0 /\ PROOFSIZE = 2
  /\ hpc = "hash"
  /\ round = 0 /\ uorv = 0 /\ part = 0
  /\ alive = [i \in 0 .. (ALIVE_WORDS - 1) |-> {}]
  /\ nonleaf = [i \in 0 .. (TWICE_WORDS - 1) |-> {}]
  /\ th = [id \in ThreadIds |-> Done]
  /\ bits = [i \in 0 .. (ALIVE_WORDS - 1) |-> {}]
  /\ cuckoo = EmptyTable
  /\ nonce = 0
  /\ out = << >>
  /\ setlog = << >>
  /\ exitcode = -1
  /\ reason = "none"

\* cuckoo.set(k, v) on a table with an empty slot
HashSet(k, v) ==
  /\ hpc = "hash"
  /\ Len(setlog) < MaxSets
  /\ \E i \in 0 .. CUCKOO_MASK : cuckoo[i] = 0
  /\ cuckoo' = cuckoo_set(cuckoo, k, v).tab
  /\ setlog' = Append(setlog, << k, v >>)
  /\ UNCHANGED << SIZESHIFT, U64_BITS, sip_ctx, nthreads, ntrims, PART_BITS, PROOFSIZE, hpc,
                  round, uorv, part, alive, nonleaf, th, bits, nonce, out, exitcode,
                  reason >>

NextHash == \E k \in HashKeys, v \in HashVals : HashSet(k, v)

SpecHash == InitHash /\ [][NextHash]_vars

\* ------------------------------------- path() on a table on its own
\* path() takes any cuckoo_hash.  The build is SIZESHIFT = 5, the smallest
\* one with more nodes than MAXPATHLEN = 16 and a table of CUCKOO_SIZE = 16
\* slots, which holds the 16 pointers of a trail of MAXPATHLEN entries.
\* The table is filled by set calls and then traced once.
PathStarts == {1, 2, 3}

\* node k points at the next node, or back at one of the first three nodes
\* or at itself
PathTargets(k) == {k + 1, 1, 2, 3, k}

InitPath ==
  /\ SIZESHIFT = 5
  /\ U64_BITS = 64
  /\ sip_ctx = Table([i \in 1 .. HALFSIZE |-> << 1, 1 >>])
  /\ nthreads = 1 /\ ntrims = 0 /\ PART_BITS = 0 /\ PROOFSIZE = 2
  /\ hpc = "hash"
  /\ round = 0 /\ uorv = 0 /\ part = 0
  /\ alive = [i \in 0 .. (ALIVE_WORDS - 1) |-> {}]
  /\ nonleaf = [i \in 0 .. (TWICE_WORDS - 1) |-> {}]
  /\ th = [id \in ThreadIds |-> Done]
  /\ bits = [i \in 0 .. (ALIVE_WORDS - 1) |-> {}]
  /\ cuckoo = EmptyTable
  /\ nonce = 0
  /\ out = << >>
  /\ setlog = << >>
  /\ exitcode = -1
  /\ reason = "none"

\* cuckoo.set(k, v) on a table with an empty slot: the nodes 1, 2, ... get
\* their pointers in ascending order, as long as the chain from node 1 has
\* not been closed by a pointer back
PathSet(k, v) ==
  /\ hpc = "hash"
  /\ k = Len(setlog) + 1
  /\ IF setlog = << >> THEN TRUE
     ELSE setlog[Len(setlog)][2] = setlog[Len(setlog)][1] + 1
  /\ \E i \in 0 .. CUCKOO_MASK : cuckoo[i] = 0
  /\ cuckoo' = cuckoo_set(cuckoo, k, v).tab
  /\ setlog' = Append(setlog, << k, v >>)
  /\ UNCHANGED << SIZESHIFT, U64_BITS, sip_ctx, nthreads, ntrims, PART_BITS, PROOFSIZE, hpc,
                  round, uorv, part, alive, nonleaf, th, bits, nonce, out, exitcode,
                  reason >>

\* every lookup of the trace from u0 returns: on a full table the probe
\* for a node without an entry meets neither its key nor an empty slot and
\* goes round forever (lines 131-145)
TraceReturns(c, u0) ==
  /\ cuckoo_get(c, u0).res # "hang"
  /\ path(c, cuckoo_get(c, u0).val, u0).res # "hang"

\* us[0] = u0; nu = path(cuckoo, cuckoo[u0], us): the call as main makes
\* it (lines 293-294); path returns nu and the trail, or prints its report
\* and calls exit(0)
PathTrace(u0) ==
  /\ hpc = "hash"
  /\ TraceReturns(cuckoo, u0)
  /\ LET p == path(cuckoo, cuckoo_get(cuckoo, u0).val, u0)
     IN  IF p.res = "ok"
           THEN /\ hpc' = "traced"
                /\ out' = << [kind |-> "trail", us |-> p.us, nu |-> p.nu] >>
                /\ UNCHANGED << reason, exitcode >>
           ELSE /\ hpc' = "exit"
                /\ out' = << [kind |-> p.res, arg |-> p.arg] >>
                /\ reason' = p.res
                /\ exitcode' = ExitStatus(p.res)
  /\ UNCHANGED << SIZESHIFT, U64_BITS, sip_ctx, nthreads, ntrims, PART_BITS, PROOFSIZE,
                  round, uorv, part, alive, nonleaf, th, bits, cuckoo, nonce,
                  setlog >>

NextPath ==
  \/ \E k \in 1 .. CUCKOO_SIZE : \E v \in PathTargets(k) : PathSet(k, v)
  \/ \E u0 \in PathStarts : PathTrace(u0)

SpecPath == InitPath /\ [][NextPath]_vars

\* ------------------- the PathTable where few key bits survive the shift
\* For SIZESHIFT > 32 the packed word keeps KEYBITS < SIZESHIFT bits of the
\* key and MAXDRIFT is below the table size.  The scaled slot word is the
\* narrowest one with MAXDRIFT = 2: KEYBITS = IDXSHIFT + 1.
InitDrift ==
  /\ SIZESHIFT = 4
  /\ U64_BITS = SIZESHIFT + IDXSHIFT + 1
  /\ sip_ctx = Table([i \in 1 .. HALFSIZE |-> << 1, 1 >>])
  /\ nthreads = 1 /\ ntrims = 0 /\ PART_BITS = 0 /\ PROOFSIZE = 2
  /\ hpc = "hash"
  /\ round = 0 /\ uorv = 0 /\ part = 0
  /\ alive = [i \in 0 .. (ALIVE_WORDS - 1) |-> {}]
  /\ nonleaf = [i \in 0 .. (TWICE_WORDS - 1) |-> {}]
  /\ th = [id \in ThreadIds |-> Done]
  /\ bits = [i \in 0 .. (ALIVE_WORDS - 1) |-> {}]
  /\ cuckoo = EmptyTable
  /\ nonce = 0
  /\ out = << >>
  /\ setlog = << >>
  /\ exitcode = -1
  /\ reason = "none"

SpecDrift == InitDrift /\ [][NextHash]_vars

\* =================================================================
\* Properties
\* =================================================================
AliveSet(bs) == { n \in Nonces : test(bs, n) }

\* the nonces of S whose side-s node is q
Touching(S, s, q) == { n \in S : dipnode(sip_ctx, n, s) = q }

\* C forms a cycle: every node C touches on a side is the endpoint, on that
\* side, of at least two nonces of C
IsCycleSet(C) ==
  /\ C # {}
  /\ \A s \in {0, 1} : \A n \in C :
       Cardinality(Touching(C, s, dipnode(sip_ctx, n, s))) >= 2

HalfRoundOver == hpc \in {"trim", "readout"}
TrimmingOver == hpc \in {"readout", "scan", "exit", "hang"}

\* C1. Cycle preservation: after every half-round of trimming and at the
\* end of trimming, every set of nonces that forms a cycle (all nonces are
\* alive before trimming) is still wholly alive, for every round count,
\* partition count, parallelism width and interleaving.
C1_CyclePreserved ==
  HalfRoundOver =>
    LET A == AliveSet(alive)
    IN  \A C \in SUBSET Nonces : IsCycleSet(C) => C \subseteq A

\* a 4-cycle of four distinct edges survived two partitioned rounds run by
\* two units, while chaff was trimmed away
C1_Witness ==
  /\ hpc = "readout" /\ ntrims = 2 /\ nthreads = 2 /\ PART_BITS = 1
  /\ AliveSet(alive) # Nonces
  /\ \E C \in SUBSET Nonces :
       /\ IsCycleSet(C) /\ Cardinality(C) = 4
       /\ \A m, n \in C : m # n => sipedge(sip_ctx, m) # sipedge(sip_ctx, n)
       /\ C = AliveSet(alive)

\* what one half-round (side s, partition p) leaves of the alive set A
HalfRoundRef(A, s, p) ==
  { n \in A :
      \/ dipnode(sip_ctx, n, s) % (2 ^ PART_BITS) # p
      \/ Cardinality(Touching(A, s, dipnode(sip_ctx, n, s))) >= 2 }

RECURSIVE PartsRef(_, _, _)
PartsRef(A, s, p) ==
  IF p > PART_MASK THEN A ELSE PartsRef(HalfRoundRef(A, s, p), s, p + 1)

RECURSIVE RoundsRef(_, _)
RoundsRef(A, r) ==
  IF r = 0 THEN A ELSE RoundsRef(PartsRef(PartsRef(A, 0, 0), 1, 0), r - 1)

\* C2. Determinism of trimming: the alive set at the end of trimming is a
\* function of the edge function, the round count and the partition count
\* alone: whatever the parallelism width and the interleaving of the units,
\* it is the set the rounds yield when run one half-round at a time.
C2_TrimDeterministic ==
  TrimmingOver => AliveSet(alive) = RoundsRef(Nonces, ntrims)

C2_Witness ==
  /\ hpc = "readout" /\ nthreads = 2 /\ ntrims = 2 /\ PART_BITS = 1
  /\ AliveSet(alive) # Nonces /\ AliveSet(alive) # {}
  /\ RoundsRef(Nonces, 1) # RoundsRef(Nonces, 2)

Solutions == { i \in 1 .. Len(out) : out[i].kind = "solution" }

Ascending(q) == \A i \in 1 .. (Len(q) - 1) : q[i] < q[i + 1]

\* C3. Solution output: the values emitted after the success marker are
\* exactly PROOFSIZE pairwise distinct nonces in strictly ascending order,
\* each an alive nonce whose (u, v) pair is an edge of the collected cycle.
C3_SolutionOutput ==
  \A i \in Solutions :
    /\ Len(out[i].printed) = PROOFSIZE
    /\ Ascending(out[i].printed)
    /\ \A j \in 1 .. Len(out[i].printed) :
         /\ out[i].printed[j] \in AliveSet(bits)
         /\ sipedge(sip_ctx, out[i].printed[j]) \in out[i].cycle

\* the pairs of E chain into one closed cycle alternating between the
\* sides: every node of a side lies on exactly two pairs of E and the
\* pairs are connected through shared nodes
RECURSIVE Reach(_, _)
Reach(E, R) ==
  LET R2 == R \cup { e \in E : \E f \in R : e[1] = f[1] \/ e[2] = f[2] }
  IN  IF R2 = R THEN R ELSE Reach(E, R2)

ClosedCycle(E) ==
  /\ E # {}
  /\ \A e \in E : Cardinality({ f \in E : f[1] = e[1] }) = 2
  /\ \A e \in E : Cardinality({ f \in E : f[2] = e[2] }) = 2
  /\ \A e \in E : Reach(E, {e}) = E

\* C4. Solution assembly consistency: whenever the join test yields length
\* PROOFSIZE, the collected edge set holds PROOFSIZE pairs that chain into
\* one closed alternating cycle (for PROOFSIZE = 2 the one pair of the
\* doubled edge), the re-scan matches exactly PROOFSIZE nonces, and the
\* assertion n == PROOFSIZE never fails.
C4_AssemblyConsistent ==
  /\ reason # "assert_n"
  /\ \A i \in Solutions :
       /\ IF PROOFSIZE = 2
            THEN Cardinality(out[i].cycle) = 1
            ELSE Cardinality(out[i].cycle) = PROOFSIZE /\ ClosedCycle(out[i].cycle)
       /\ Len(out[i].hits) = PROOFSIZE

\* C5. Sentinel discipline: no set(from, to) is ever performed with
\* from = 0 or to = 0.
C5_SentinelNeverSet ==
  \A i \in 1 .. Len(setlog) : setlog[i][1] # 0 /\ setlog[i][2] # 0

PastReadout == hpc \in {"scan", "exit", "hang"}

AliveCount == Cardinality(AliveSet(bits))

\* C6. Overload guard: once the load is computed, a load of 90 or more
\* (100 * alive count / CUCKOO_SIZE, integer division) has ended the run as
\* overloaded with no PathTable created and no edge traced or inserted; a
\* load below 90 has created the table and started the scan.
C6_OverloadGuard ==
  PastReadout =>
    IF (100 * AliveCount) \div CUCKOO_SIZE >= 90
      THEN /\ hpc = "exit" /\ reason = "overloaded"
           /\ cuckoo = NoTable /\ setlog = << >> /\ nonce = 0
           /\ \A i \in 1 .. Len(out) : out[i].kind \in {"load", "overloaded"}
      ELSE /\ cuckoo # NoTable
           /\ reason # "overloaded"

\* the guard fired although two units had run the trimming rounds
C6_Witness ==
  /\ PastReadout /\ ntrims >= 1 /\ nthreads = 2
  /\ reason = "overloaded" /\ AliveCount = HALFSIZE

Aborts == {"overloaded", "illegal", "maxpath", "assert_n", "assert_drift"}

\* C7. Abort status: every abort ends the run with an exit status other
\* than the status of a scan that completes normally.
C7_AbortStatus ==
  (hpc = "exit" /\ reason \in Aborts) => exitcode # ExitStatus("normal")

\* the 2-bit state of node u in the counter words tw
Deg2(tw, u) ==
  << twice_bit(u) \in tw[u \div NODES_PER_WORD],
     (twice_bit(u) + 1) \in tw[u \div NODES_PER_WORD] >>

\* the node (quotiented by the partition width) unit id is marking
MarkNode(id) == dipnode(sip_ctx, th[id].nonce, uorv) \div (2 ^ PART_BITS)

\* the number of mark(u) calls of the current count phase
Marks(u) ==
  Cardinality({ n \in AliveSet(alive) :
                  /\ dipnode(sip_ctx, n, uorv) % (2 ^ PART_BITS) = part
                  /\ dipnode(sip_ctx, n, uorv) \div (2 ^ PART_BITS) = u })

C8_Converged ==
  (hpc = "count" /\ AllDone) =>
    \A u \in 0 .. (ONCE_BITS - 1) : twice_test(nonleaf, u) <=> (Marks(u) >= 2)

C8_Step ==
  (hpc = "count" /\ hpc' = "count") =>
    /\ \A i \in 0 .. (TWICE_WORDS - 1) : nonleaf[i] \subseteq nonleaf'[i]
    /\ \A u \in 0 .. (ONCE_BITS - 1) :
         Deg2(nonleaf', u) # Deg2(nonleaf, u) =>
           \E id \in ThreadIds :
             th[id].st # "done" /\ MarkNode(id) = u /\ th'[id] # th[id]

\* C8. DegreeCounter under concurrency: when every mark call of a count
\* phase has completed, is_nonleaf(node) holds iff the node was marked at
\* least twice, whatever the interleaving of the atomic steps; no step
\* clears a bit, and a step changes the 2-bit state of the marked node only.
C8_DegreeCounter == [] C8_Converged /\ [][C8_Step]_vars

\* two units have marked one node three times between them, next to a node
\* of the same word marked once
C8_Witness ==
  /\ hpc = "count" /\ AllDone /\ nthreads = 2
  /\ \E u, w \in 0 .. (ONCE_BITS - 1) :
       /\ u # w /\ u \div NODES_PER_WORD = w \div NODES_PER_WORD
       /\ Marks(u) >= 3 /\ Marks(w) = 1
       /\ \E m, n \in AliveSet(alive) :
            /\ m \div WORDBITS # n \div WORDBITS
            /\ dipnode(sip_ctx, m, uorv) = dipnode(sip_ctx, n, uorv)
            /\ dipnode(sip_ctx, m, uorv) \div (2 ^ PART_BITS) = u
            /\ dipnode(sip_ctx, m, uorv) % (2 ^ PART_BITS) = part

C9_Step ==
  /\ \A n \in Nonces : ~test(alive, n) => ~test(alive', n)
  /\ Cardinality(AliveSet(alive')) <= Cardinality(AliveSet(alive))
  /\ PastReadout => bits' = bits

C9_ResetIdempotent ==
  \A n \in Nonces : ~test(alive, n) => reset(alive, n) = alive

\* C9. Monotonic shrinkage: a step changes a nonce from alive to dead only,
\* reset on a dead nonce changes nothing, the alive count never grows, and
\* the edge bitmap is not modified during cycle detection.
C9_MonotonicShrinkage == [] C9_ResetIdempotent /\ [][C9_Step]_vars

\* edges were killed in a kill phase that is still running, in its second
\* round
C9_Witness ==
  /\ hpc = "kill" /\ round = 1 /\ ~AllDone
  /\ AliveSet(alive) # Nonces /\ AliveSet(alive) # {}
  /\ AliveSet(alive) # RoundsRef(Nonces, 1)

\* the value of the most recent set(k, .) in the log, 0 if there is none
RECURSIVE LastSet(_, _)
LastSet(k, i) ==
  IF i = 0 THEN 0
  ELSE IF setlog[i][1] = k THEN setlog[i][2]
  ELSE LastSet(k, i - 1)

LookupsAgree ==
  /\ \A k \in 0 .. (SIZE - 1) :
       cuckoo_get(cuckoo, k) = [res |-> "ok", val |-> LastSet(k, Len(setlog))]
  /\ \A i, j \in 0 .. CUCKOO_MASK :
       (i # j /\ cuckoo[i] # 0 /\ cuckoo[j] # 0) =>
         cuckoo[i] \div SIZE # cuckoo[j] \div SIZE

\* the set calls main can make: key 0 is v0 at line 333, where the value u0
\* is not 0 (line 291), and no trail entry past the first is 0
MainSets == \A i \in 1 .. Len(setlog) : setlog[i] # << 0, 0 >>

\* C10. PathTable set/lookup: after any sequence of set operations on a
\* table that is not full, lookup(k) returns the value of the most recent
\* set(k, v) and 0 if k was never set, and no key occupies two slots (so a
\* set changes the lookup of no other key).  Stated for the sequences of
\* set calls that main can make, none of which is set(0, 0).
C10_SetLookup == (hpc = "hash" /\ MainSets) => LookupsAgree


\* ------------------------------------------------------ half-rounds
\* partitions p .. q-1 of side s, one half-round after the other
RECURSIVE PartsTo(_, _, _, _)
PartsTo(A, s, p, q) ==
  IF p >= q THEN A ELSE PartsTo(HalfRoundRef(A, s, p), s, p + 1, q)

\* the alive set at the start of the half-round (round, uorv, part)
StartRef ==
  PartsTo(IF uorv = 1 THEN PartsRef(RoundsRef(Nonces, round), 0, 0)
                      ELSE RoundsRef(Nonces, round),
          uorv, 0, part)

\* the nonces of A whose side-uorv node is u (quotiented) in the partition
MarksOf(A, u) ==
  { n \in A : /\ dipnode(sip_ctx, n, uorv) % (2 ^ PART_BITS) = part
              /\ dipnode(sip_ctx, n, uorv) \div (2 ^ PART_BITS) = u }

C11_Start == hpc \in {"trim", "count"} => AliveSet(alive) = StartRef

C11_Barrier ==
  hpc = "kill" =>
    LET S == StartRef
    IN  \A u \in 0 .. (ONCE_BITS - 1) :
          twice_test(nonleaf, u) <=> (Cardinality(MarksOf(S, u)) >= 2)

C11_End ==
  (hpc = "kill" /\ AllDone) =>
    AliveSet(alive) = HalfRoundRef(StartRef, uorv, part)

\* C11. Half-round effect: for every side, partition, width and
\* interleaving, when the kill phase of a half-round is over a nonce is
\* alive iff it was alive at the start of the half-round and its node on
\* that side is outside the partition or is the node of at least two nonces
\* alive at the start; all through the kill phase the counters hold every
\* mark of the count phase of the same half-round and no mark of an
\* earlier one.
C11_HalfRoundEffect == C11_Start /\ C11_Barrier /\ C11_End

\* the second partition of side 0 in the second round, two units: the
\* half-round has killed a nonce and kept another of the partition
C11_Witness ==
  /\ hpc = "kill" /\ AllDone /\ nthreads = 2
  /\ round = 1 /\ uorv = 0 /\ part = 1
  /\ AliveSet(alive) # StartRef
  /\ \E n \in AliveSet(alive) : dipnode(sip_ctx, n, 0) % 2 = 1


\* ---------------------------------------------------- word ownership
\* the unit that owns the word of nonce n
Owner(n) == (n \div WORDBITS) % nthreads

InPart(n) == dipnode(sip_ctx, n, uorv) % (2 ^ PART_BITS) = part

\* a unit inside a kernel is at an alive nonce of the partition, in a word
\* it owns, and no other unit is in that word
C12_Own ==
  hpc \in {"count", "kill"} =>
    \A id \in ThreadIds :
      th[id].st # "done" =>
        /\ th[id].block % WORDBITS = 0
        /\ th[id].nonce \div WORDBITS = th[id].block \div WORDBITS
        /\ Owner(th[id].nonce) = id
        /\ test(alive, th[id].nonce) /\ InPart(th[id].nonce)
        /\ \A jd \in ThreadIds :
             (jd # id /\ th[jd].st # "done") => th[jd].block # th[id].block

\* a unit moves forward only and passes over no alive nonce of the
\* partition in its words, from the kernel's entry on; a word of the
\* bitmap changes only by the step of the one unit that owns it
C12_Step ==
  /\ \A id \in ThreadIds :
       ((hpc' # hpc /\ hpc' \in {"count", "kill"}) \/ th'[id] # th[id]) =>
         LET a == IF hpc' # hpc THEN -1 ELSE th[id].nonce
         IN  /\ th'[id].nonce >= a
             /\ \A n \in Nonces :
                  (Owner(n) = id /\ a < n /\ n < th'[id].nonce) =>
                    ~(test(alive', n) /\ InPart(n))
  /\ \A i \in 0 .. (ALIVE_WORDS - 1) :
       alive'[i] # alive[i] =>
         /\ hpc = "kill"
         /\ \E id \in ThreadIds :
              /\ th[id].st # "done" /\ th[id].block = i * WORDBITS
              /\ i % nthreads = id
              /\ \A jd \in ThreadIds : jd # id => th'[jd] = th[jd]

\* C12. AliveSet word ownership: within a count or kill phase, for every
\* nthreads >= 1, each word of the alive bitmap is read and written by one
\* unit only, the unit id = word index mod nthreads: no two units write the
\* same word, and each alive nonce (of the partition) is visited by its
\* owner exactly once per phase.
C12_WordOwnership == [] C12_Own /\ [][C12_Step]_vars

\* two units in the middle of a kill phase, each with a kill in its word
C12_Witness ==
  /\ hpc = "kill" /\ nthreads = 2
  /\ th[0].st = "run" /\ th[1].st = "run"
  /\ \E m, n \in StartRef \ AliveSet(alive) :
       m \div WORDBITS = 0 /\ n \div WORDBITS = 1


\* ---------------------------------------------------- pointer forest
\* the pointer of node x: what a lookup returns, 0 for none
Ptr(c, x) == cuckoo_get(c, x).val

\* following the pointers from x ends at the sentinel with no node of
\* seen met again
RECURSIVE Reaches0(_, _, _)
Reaches0(c, x, seen) ==
  IF x = 0 THEN TRUE
  ELSE IF x \in seen THEN FALSE
  ELSE Reaches0(c, Ptr(c, x), seen \cup {x})

HasTable == cuckoo # NoTable

\* the number of pointer steps from x to the sentinel, in a forest
RECURSIVE Depth(_, _)
Depth(c, x) == IF x = 0 THEN 0 ELSE 1 + Depth(c, Ptr(c, x))

\* C13. Pointer forest stays acyclic: after any sequence of processed
\* edges, following the PathTable pointers from any node reaches the
\* sentinel in finitely many steps without visiting a node twice, and the
\* run never ends with the illegal-cycle abort.
C13_ForestAcyclic ==
  /\ HasTable =>
       \A x \in 0 .. (SIZE - 1) :
         /\ cuckoo_get(cuckoo, x).res = "ok"
         /\ Reaches0(cuckoo, Ptr(cuckoo, x), {x})
  /\ reason # "illegal"

\* a union has reversed a trail (two sets in a row, the second at the key
\* the first pointed to) and some trace is three pointer steps long
C13_Witness ==
  /\ hpc = "scan"
  /\ \E i \in 1 .. (Len(setlog) - 1) : setlog[i][2] = setlog[i + 1][1]
  /\ \E x \in 1 .. (SIZE - 1) : Depth(cuckoo, Ptr(cuckoo, x)) >= 3


\* ------------------------------------------------------- union step
\* the nodes from x along the pointers, x first, the root last
RECURSIVE TrailOf(_, _)
TrailOf(c, x) ==
  IF Ptr(c, x) = 0 THEN << x >> ELSE << x >> \o TrailOf(c, Ptr(c, x))

RootOf(c, x) == TrailOf(c, x)[Len(TrailOf(c, x))]

\* a step of the scan that united two trees
UnionStep == hpc = "scan" /\ setlog' # setlog

\* what the union of the edge (u0, v0) must have done to the table
UnionEffect(u0, v0) ==
  LET tu    == TrailOf(cuckoo, u0)
      tv    == TrailOf(cuckoo, v0)
      ru    == tu[Len(tu)]
      rv    == tv[Len(tv)]
      short == IF Len(tu) < Len(tv) THEN tu ELSE tv
      a     == short[1]
      b     == IF Len(tu) < Len(tv) THEN v0 ELSE u0
      R     == IF Len(tu) < Len(tv) THEN rv ELSE ru
  IN  /\ ru # rv
      /\ a = (IF Len(tu) < Len(tv) THEN u0 ELSE v0)
      /\ \A k \in 1 .. (Len(short) - 1) :
           Ptr(cuckoo', short[k + 1]) = short[k]
      /\ Ptr(cuckoo', a) = b
      /\ RootOf(cuckoo', u0) = R /\ RootOf(cuckoo', v0) = R
      /\ \A x \in 0 .. (SIZE - 1) :
           RootOf(cuckoo, x) \in {ru, rv} => RootOf(cuckoo', x) = R

C14_Step ==
  UnionStep =>
    UnionEffect(sipedge(sip_ctx, nonce)[1], sipedge(sip_ctx, nonce)[2])

\* C14. Union step: when the traces from u0 and v0 end at different roots,
\* the shorter trail (the u trail iff nu < nv, the v trail on a tie) has its
\* pointers reversed and its origin pointed at the other origin; afterwards
\* the traces from u0 and from v0 both end at the former root of the other
\* trail, every node that reached either former root reaches that root,
\* and the pointer of the reversed trail's origin is the other origin.
C14_UnionStep == [][C14_Step]_vars


\* ------------------------------------------------------ join length
\* position in the trail t of its first node that lies on the trail w
FirstOn(t, w) ==
  CHOOSE k \in 1 .. Len(t) :
    /\ \E j \in 1 .. Len(w) : w[j] = t[k]
    /\ \A h \in 1 .. (k - 1) : \A j \in 1 .. Len(w) : w[j] # t[h]

\* the pointer x -> y stands for an alive edge processed before nonce n
EdgeBefore(x, y, n) ==
  \E m \in 0 .. (n - 1) :
    /\ test(bits, m)
    /\ sipedge(sip_ctx, m) \in { << x, y >>, << y, x >> }

\* the nonce of the step is alive, not skipped, and its traces share a root
JoinCase ==
  /\ hpc = "scan" /\ nonce < HALFSIZE /\ test(bits, nonce)
  /\ sipedge(sip_ctx, nonce)[1] # 0
  /\ RootOf(cuckoo, sipedge(sip_ctx, nonce)[1])
       = RootOf(cuckoo, sipedge(sip_ctx, nonce)[2])

C15_Step ==
  JoinCase =>
    LET tu == TrailOf(cuckoo, sipedge(sip_ctx, nonce)[1])
        tv == TrailOf(cuckoo, sipedge(sip_ctx, nonce)[2])
        i  == FirstOn(tu, tv)
        j  == FirstOn(tv, tu)
    IN  /\ tu[i] = tv[j]
        /\ Len(tu) - i = Len(tv) - j
        /\ Len(out') > Len(out)
        /\ out'[Len(out) + 1] =
             [kind |-> "cycle", len |-> (i - 1) + (j - 1) + 1, at |-> nonce]
        /\ \A k \in 1 .. (i - 1) : EdgeBefore(tu[k], tu[k + 1], nonce)
        /\ \A k \in 1 .. (j - 1) : EdgeBefore(tv[k], tv[k + 1], nonce)

\* C15. Join length: when both traces end at the same node, the reported
\* length nu + nv + 1, with nu and nv the steps from u0 and v0 to the first
\* common node, is the number of edges of the cycle the edge (u0, v0)
\* closes with edges already in the PathTable; the first common node is at
\* equal distance from the tails of the two trails, where the aligned walk
\* looks for it.
C15_JoinLength == [][C15_Step]_vars

\* a 4-cycle has been reported in a run that looks for 2-cycles
C15_Witness ==
  /\ PROOFSIZE = 2
  /\ \E i \in 1 .. Len(out) : out[i].kind = "cycle" /\ out[i].len = 4


\* ----------------------------------------------------- bounded trail
\* the nodes of the trace from the last node of t, n more of them; past
\* the sentinel the trace stays at the sentinel
RECURSIVE Walk(_, _, _)
Walk(c, t, n) ==
  IF n = 0 THEN t
  ELSE Walk(c,
            Append(t, IF Len(t) > 1 /\ t[Len(t)] = 0 THEN 0
                      ELSE Ptr(c, t[Len(t)])),
            n - 1)

\* the trace from x needs the trail entry of index MAXPATHLEN
Overflows(c, x) ==
  LET W == Walk(c, << x >>, MAXPATHLEN)
  IN  \A k \in 1 .. MAXPATHLEN : W[k + 1] # 0

\* what the abort of the trace from x reports
AbortReport(c, x) ==
  LET W   == Walk(c, << x >>, MAXPATHLEN)
      nxt == W[MAXPATHLEN + 1]
      I   == { i \in 0 .. (MAXPATHLEN - 1) : W[i + 1] = nxt }
  IN  IF I = {} THEN [kind |-> "maxpath", arg |-> 0]
      ELSE [kind |-> "illegal",
            arg |-> MAXPATHLEN - (CHOOSE i \in I : \A h \in I : h <= i)]

C16_Trace ==
  hpc = "hash" =>
    \A x \in PathStarts :
      TraceReturns(cuckoo, x) =>
        LET p  == path(cuckoo, Ptr(cuckoo, x), x)
            W  == Walk(cuckoo, << x >>, MAXPATHLEN)
            ov == \A k \in 1 .. MAXPATHLEN : W[k + 1] # 0
        IN  /\ Len(p.us) <= MAXPATHLEN
            /\ \A k \in 1 .. Len(p.us) : p.us[k] = W[k]
            /\ ov = Overflows(cuckoo, x)
            /\ IF ov
                 THEN /\ Len(p.us) = MAXPATHLEN
                      /\ [kind |-> p.res, arg |-> p.arg] = AbortReport(cuckoo, x)
                 ELSE /\ p.res = "ok"
                      /\ Len(p.us) = p.nu + 1
                      /\ W[p.nu + 2] = 0

\* a step that traced the table
TraceStep == hpc = "hash" /\ hpc' # "hash"

C16_Step ==
  TraceStep =>
    /\ cuckoo' = cuckoo /\ setlog' = setlog
    /\ \E u0 \in PathStarts :
         IF Overflows(cuckoo, u0)
           THEN /\ hpc' = "exit"
                /\ out' = << AbortReport(cuckoo, u0) >>
                /\ reason' = AbortReport(cuckoo, u0).kind
           ELSE /\ hpc' = "traced"
                /\ out' = << [kind |-> "trail", us |-> TrailOf(cuckoo, u0),
                              nu |-> Len(TrailOf(cuckoo, u0)) - 1] >>
                /\ reason' = reason

\* C16. Bounded trail: a path trace writes trail entries at indices below
\* MAXPATHLEN only; a trace that has not reached the sentinel when the
\* trail would need MAXPATHLEN + 1 entries aborts the run, reporting an
\* illegal cycle of length MAXPATHLEN - i when the next node is in the
\* trail with highest index i, and that the maximum path length is
\* exceeded when it is nowhere in the trail; the run ends inside path, so
\* that no join test and no union follows.
C16_BoundedTrail == [] C16_Trace /\ [][C16_Step]_vars

\* the trace from node 1 along the chain 1 -> 2 -> ... -> 17 filled the
\* trail with the nodes 1 .. 16 and ended the run at node 17, which is
\* nowhere in the trail
C16_Witness ==
  /\ hpc = "exit" /\ reason = "maxpath"
  /\ out = << [kind |-> "maxpath", arg |-> 0] >>
  /\ Len(setlog) = MAXPATHLEN
  /\ \A k \in 1 .. MAXPATHLEN : Ptr(cuckoo, k) = k + 1

\* ------------------------------------------------------- drift bound
\* MAXDRIFT = 1 << (KEYBITS - IDXSHIFT), where the shift is a small one
MaxDrift == 2 ^ Max(KEYBITS - IDXSHIFT, 0)

\* (ui - (u >> IDXSHIFT)) & CUCKOO_MASK
Drift(ui, u) == (ui - (u \div (2 ^ IDXSHIFT))) % CUCKOO_SIZE

\* slots a lookup of u passes before the slot it returns at
RECURSIVE ProbesOf(_, _, _)
ProbesOf(c, u, d) ==
  LET ui == ((u \div (2 ^ IDXSHIFT)) + d) % CUCKOO_SIZE
  IN  IF d >= CUCKOO_SIZE \/ c[ui] = 0 \/ (c[ui] \div SIZE) = KeyOf(u)
        THEN d ELSE ProbesOf(c, u, d + 1)

\* a set that stores at a distance of MAXDRIFT or more ends the run
C17_SetStep ==
  (hpc = "hash" /\ setlog' # setlog) =>
    \A i \in 0 .. CUCKOO_MASK :
      (cuckoo'[i] # cuckoo[i]
         /\ Drift(i, setlog'[Len(setlog')][1]) >= MaxDrift) =>
        (hpc' = "exit" /\ reason' = "assert_drift")

\* a lookup that probes as far as MAXDRIFT does not return
C17_Lookup ==
  hpc = "hash" =>
    \A u \in 0 .. (SIZE - 1) :
      ProbesOf(cuckoo, u, 0) >= MaxDrift =>
        cuckoo_get(cuckoo, u).res = "assert_drift"

\* C17. Drift bound: a PathTable operation, insert as well as lookup,
\* whose probe distance from the natural slot reaches MAXDRIFT ends the run
\* with the fatal drift condition: no set stores an entry at a distance of
\* MAXDRIFT or more, and no lookup returns, hit or miss, after probing
\* that far.
C17_DriftBound == [] C17_Lookup /\ [][C17_SetStep]_vars


\* ------------------------------------------- scan past the closures
\* the nonce of the step is alive and its side-0 endpoint is node 0
SkipCase ==
  /\ hpc = "scan" /\ nonce < HALFSIZE /\ test(bits, nonce)
  /\ sipedge(sip_ctx, nonce)[1] = 0

C18_Step ==
  /\ (SkipCase \/ JoinCase) =>
       /\ cuckoo' = cuckoo
       /\ hpc' = "scan" /\ nonce' = nonce + 1
  /\ (hpc = "scan" /\ hpc' = "scan") => nonce' = nonce + 1
  /\ (hpc = "scan" /\ nonce < HALFSIZE /\ ~test(bits, nonce)) =>
       /\ hpc' = "scan"
       /\ cuckoo' = cuckoo /\ out' = out

C18_ToTheEnd == reason = "normal" => nonce = HALFSIZE

\* C18. Scan continues past closures: processing an alive edge that is
\* skipped (side-0 endpoint 0) or that closes a cycle of any length,
\* PROOFSIZE included, leaves the PathTable unchanged and does not stop the
\* scan; the nonces are taken one by one in ascending order, and a run that
\* ends without a fatal abort has gone through the whole edge set.
C18_ScanContinues == [] C18_ToTheEnd /\ [][C18_Step]_vars


\* ------------------------------------------------------ termination
\* C19. Termination: for every configuration and edge function the run
\* eventually ends, by a fatal abort or at the end of the scan; no probe
\* loop of the PathTable and no path trace runs forever.
C19_Terminates == <>(hpc = "exit")

\* a run of two rounds on two units that went through the whole scan, with
\* unions and with lookups of keys that are not in the table
C19_Witness ==
  /\ hpc = "exit" /\ reason = "normal"
  /\ ntrims = 2 /\ nthreads = 2 /\ PART_BITS = 1
  /\ Len(setlog) >= 3
  /\ \E x \in 1 .. (SIZE - 1) :
       Ptr(cuckoo, x) = 0 /\ ProbesOf(cuckoo, x, 0) >= 1


\* -------------------------------------------------- table occupancy
Occupied(c) == Cardinality({ i \in 0 .. CUCKOO_MASK : c[i] # 0 })

\* the alive nonces the scan has processed so far
Processed == { n \in Nonces : n < nonce /\ test(bits, n) }

\* the root of the trail that the union of the step's edge reverses
ReversedRoot ==
  LET tu == TrailOf(cuckoo, sipedge(sip_ctx, nonce)[1])
      tv == TrailOf(cuckoo, sipedge(sip_ctx, nonce)[2])
  IN  IF Len(tu) < Len(tv) THEN tu[Len(tu)] ELSE tv[Len(tv)]

C20_Step ==
  hpc = "scan" =>
    IF UnionStep
      THEN /\ Occupied(cuckoo') = Occupied(cuckoo) + 1
           /\ \E i \in 0 .. CUCKOO_MASK :
                /\ cuckoo[i] = 0
                /\ cuckoo'[i] # 0
                /\ cuckoo'[i] \div SIZE = KeyOf(ReversedRoot)
      ELSE \A i \in 0 .. CUCKOO_MASK : (cuckoo'[i] = 0) <=> (cuckoo[i] = 0)

C20_Bound ==
  hpc = "scan" =>
    /\ Occupied(cuckoo) <= Cardinality(Processed)
    /\ 100 * Occupied(cuckoo) < LOADLIMIT * CUCKOO_SIZE
    /\ \E i \in 0 .. CUCKOO_MASK : cuckoo[i] = 0

\* C20. Table occupancy: each union step adds exactly one new key to the
\* PathTable, the root of the reversed trail, and every other step adds
\* none; so the number of occupied slots is the number of unions made, it
\* never exceeds the number of alive nonces processed so far, it stays
\* below 90% of CUCKOO_SIZE, and the table always has an empty slot.
C20_Occupancy == [] C20_Bound /\ [][C20_Step]_vars

====
